---- MODULE Spec2Model ----
(***************************************************************************)
(* The two-stage graph compiler of format/src/computations.py:             *)
(* build_structure_graph turns a flat node list into the structure graph,  *)
(* ComputationGraph.from_nodes lowers it breadth-first into the operation  *)
(* graph, ComputationGraph.check_graph validates the result.               *)
(*                                                                         *)
(* A networkx MultiDiGraph is a record [nodes, edges, parent]: nodes in    *)
(* insertion order, edges (parallel edges kept) in insertion order, and    *)
(* the "parent" node attribute.  Nodes and operations are records compared *)
(* by value, as frozen dataclasses are.                                    *)
(***************************************************************************)
EXTENDS Naturals, Sequences, FiniteSets, TLC

VARIABLES nodes, pc, i, uid_to_node, graph, metadata, entry_nodes, order,
          last_operation_for_node, operations, entry_operations, issues,
          exception

vars == <<nodes, pc, i, uid_to_node, graph, metadata, entry_nodes, order,
          last_operation_for_node, operations, entry_operations, issues,
          exception>>

\* Largest number of nodes of an input list.
MaxNodes == 7

(***************************************************************************)
(* Node model (format/src/nodes.py): Metadata, FileObject, FileSet,        *)
(* RecordSet, Field, each with uid and parent_uid.                         *)
(***************************************************************************)
\* Python's None where a uid is expected (parent_uid of a root).
NoneUid == "None"

\* A Field's `source` that is None.
NoSource == [present |-> FALSE, reference |-> <<>>]

Source(reference) == [present |-> TRUE, reference |-> reference]

Node(type, uid, parent_uid, contained_in, encoding_format, content_url, source, has_sub_fields) ==
    [type |-> type, uid |-> uid, parent_uid |-> parent_uid,
     contained_in |-> contained_in, encoding_format |-> encoding_format,
     content_url |-> content_url, source |-> source,
     has_sub_fields |-> has_sub_fields]

\* Python's None where a Node is expected (the entry node's parent, a missing
\* Metadata).
NoneNode == Node("None", "", NoneUid, <<>>, "", "", NoSource, FALSE)

Metadata(uid) == Node("Metadata", uid, NoneUid, <<>>, "", "", NoSource, FALSE)

FileObject(uid, parent_uid, contained_in, encoding_format, content_url) ==
    Node("FileObject", uid, parent_uid, contained_in, encoding_format, content_url, NoSource, FALSE)

FileSet(uid, parent_uid, contained_in, encoding_format) ==
    Node("FileSet", uid, parent_uid, contained_in, encoding_format, "", NoSource, FALSE)

RecordSet(uid, parent_uid) == Node("RecordSet", uid, parent_uid, <<>>, "", "", NoSource, FALSE)

Field(uid, parent_uid, source, has_sub_fields) ==
    Node("Field", uid, parent_uid, <<>>, "", "", source, has_sub_fields)

\* isinstance(node, (FileObject, FileSet))
IsDistribution(node) == node.type \in {"FileObject", "FileSet"}

\* concatenate_uid: the path segments joined by "/".
RECURSIVE concatenate_uid(_)
concatenate_uid(reference) ==
    IF reference = <<>> THEN ""
    ELSE IF Len(reference) = 1 THEN reference[1]
    ELSE reference[1] \o "/" \o concatenate_uid(Tail(reference))

(***************************************************************************)
(* Operations: frozen dataclasses, equal when of the same class with equal *)
(* fields.                                                                 *)
(***************************************************************************)
Op(type, node, url) == [type |-> type, node |-> node, url |-> url]

Operation(node) == Op("Operation", node, "")

InitOperation(node) == Op("InitOperation", node, "")

Download(node, url) == Op("Download", node, url)

ReadCsv(node, url) == Op("ReadCsv", node, url)

ReadField(node) == Op("ReadField", node, "")

GroupRecordSet(node) == Op("GroupRecordSet", node, "")

(***************************************************************************)
(* networkx.MultiDiGraph                                                   *)
(***************************************************************************)
MultiDiGraph == [nodes |-> <<>>, edges |-> <<>>, parent |-> <<>>]

Range(s) == {s[k] : k \in DOMAIN s}

\* The sequence without its repeated elements, first occurrences kept in order.
RECURSIVE Dedup(_, _)
Dedup(s, seen) ==
    IF s = <<>> THEN <<>>
    ELSE IF Head(s) \in seen THEN Dedup(Tail(s), seen)
    ELSE <<Head(s)>> \o Dedup(Tail(s), seen \cup {Head(s)})

\* graph.add_node(node) without attributes
add_node(g, n) ==
    IF n \in Range(g.nodes) THEN g ELSE [g EXCEPT !.nodes = Append(@, n)]

\* graph.add_node(node, parent=parent)
add_node_parent(g, n, parent) ==
    [add_node(g, n) EXCEPT !.parent = (n :> parent) @@ @]

\* graph.add_edge(u, v): both ends become nodes, u first; parallel edges are kept.
G_add_edge(g, u, v) ==
    [add_node(add_node(g, u), v) EXCEPT !.edges = Append(@, <<u, v>>)]

\* graph.nodes[n].get("parent")
get_parent(g, n) == IF n \in DOMAIN g.parent THEN g.parent[n] ELSE NoneNode

\* graph.in_degree(n): every parallel edge and every self-loop counts.
in_degree(g, n) == Cardinality({k \in DOMAIN g.edges : g.edges[k][2] = n})

\* graph.predecessors(n): the distinct sources of n's in-edges, by first insertion.
predecessors(g, n) ==
    LET into == SelectSeq(g.edges, LAMBDA e : e[2] = n)
    IN  Dedup([k \in DOMAIN into |-> into[k][1]], {})

\* graph.successors(n): the distinct targets of n's out-edges, by first insertion.
successors(g, n) ==
    LET outof == SelectSeq(g.edges, LAMBDA e : e[1] = n)
    IN  Dedup([k \in DOMAIN outof |-> outof[k][2]], {})

\* nx.selfloop_edges(graph): one entry per parallel self-loop edge.
selfloop_edges(g) == SelectSeq(g.edges, LAMBDA e : e[1] = e[2])

get_entry_nodes(g) == SelectSeq(g.nodes, LAMBDA n : in_degree(g, n) = 0)

\* nx.bfs_layers(graph, source), the layers concatenated in processing order.
RECURSIVE Flatten(_)
Flatten(ss) == IF ss = <<>> THEN <<>> ELSE Head(ss) \o Flatten(Tail(ss))

RECURSIVE bfs_layers(_, _, _)
bfs_layers(g, current_layer, visited) ==
    IF current_layer = <<>> THEN <<>>
    ELSE LET children == Flatten([k \in DOMAIN current_layer |->
                                    successors(g, current_layer[k])])
             next_layer == Dedup(children, visited)
         IN  <<current_layer>> \o bfs_layers(g, next_layer, visited \cup Range(next_layer))

(***************************************************************************)
(* Inputs: every sub-list, of at most MaxNodes nodes, of a pool of nodes   *)
(* that holds each node kind with resolved, unresolved and malformed       *)
(* references.                                                             *)
(***************************************************************************)
Tar == "application/x-tar"

Csv == "text/csv"

Jpeg == "image/jpeg"

NodePool ==
    << Metadata("M"),
       FileObject("A", "M", <<>>, Tar, "http://x/a.tar"),
       FileObject("F", "M", <<>>, Csv, "http://x/data.csv"),
       FileObject("F", "M", <<>>, Csv, "http://x/other.csv"),
       FileObject("O", "M", <<"Q">>, Csv, "http://x/o.csv"),
       FileSet("S", "M", <<"A", "B">>, Jpeg),
       FileObject("B", "M", <<"A">>, Csv, "http://x/b.csv"),
       FileSet("T", "M", <<"A">>, Jpeg),
       RecordSet("R", "M"),
       RecordSet("P", NoneUid),
       Field("R/name", "R", Source(<<"F", "col">>), FALSE),
       Field("R/bad1", "R", Source(<<"F">>), FALSE),
       Field("R/bad3", "R", Source(<<"F", "a", "b">>), FALSE),
       Field("R/m", "R", Source(<<"M", "col">>), FALSE),
       Field("R/u", "R", Source(<<"Q", "col">>), FALSE),
       Field("R/g", "R", NoSource, TRUE),
       Field("R/g/h", "R/g", NoSource, TRUE),
       Field("R/g/x", "R/g", Source(<<"F", "col">>), FALSE),
       Field("R/g/h/y", "R/g/h", Source(<<"F", "col">>), FALSE) >>

\* The elements of s at the positions in `keep`, in order.
RECURSIVE SubList(_, _, _)
SubList(s, keep, k) ==
    IF k > Len(s) THEN <<>>
    ELSE (IF k \in keep THEN <<s[k]>> ELSE <<>>) \o SubList(s, keep, k + 1)

Inputs ==
    {SubList(NodePool, keep, 1) :
        keep \in {m \in SUBSET DOMAIN NodePool : Cardinality(m) <= MaxNodes}}

(***************************************************************************)
(* Issues: the diagnostics accumulated by add_error, in order.             *)
(***************************************************************************)
Error(kind, uid) == [kind |-> kind, uid |-> uid]

add_error(iss, kind, uid) == Append(iss, Error(kind, uid))

(***************************************************************************)
(* build_structure_graph                                                   *)
(***************************************************************************)
\* _check_no_duplicate: the mapping uid -> node (the last node of a uid wins)
\* and one error per repeated uid.
check_no_duplicate_map(ns) ==
    [u \in {ns[k].uid : k \in DOMAIN ns} |->
        ns[CHOOSE k \in DOMAIN ns :
              /\ ns[k].uid = u
              /\ \A j \in DOMAIN ns : ns[j].uid = u => j <= k]]

RECURSIVE check_no_duplicate_issues(_, _, _)
check_no_duplicate_issues(iss, ns, k) ==
    IF k > Len(ns) THEN iss
    ELSE check_no_duplicate_issues(
             IF \E j \in 1..(k - 1) : ns[j].uid = ns[k].uid
             THEN add_error(iss, "Duplicate", ns[k].uid) ELSE iss,
             ns, k + 1)

\* add_edge(issues, graph, uid_to_node, uid, node): the issues and the graph after it.
add_edge(iss, g, u2n, uid, node) ==
    IF uid \notin DOMAIN u2n
    THEN [issues |-> add_error(iss, "UnknownReference", uid), graph |-> g]
    ELSE [issues |-> iss, graph |-> G_add_edge(g, u2n[uid], node)]

\* for uid in node.contained_in: add_edge(issues, graph, uid_to_node, uid, node)
RECURSIVE add_contained_in(_, _, _, _, _)
add_contained_in(iss, g, u2n, uids, node) ==
    IF uids = <<>> THEN [issues |-> iss, graph |-> g]
    ELSE LET r == add_edge(iss, g, u2n, Head(uids), node)
         IN  add_contained_in(r.issues, r.graph, u2n, Tail(uids), node)

\* The Field branch: the source is another field (the whole reference is a
\* uid), or a top-level node (the first segment is a uid), or unknown.
add_field_source(iss, g, u2n, node) ==
    LET reference == node.source.reference
    IN  IF concatenate_uid(reference) \in DOMAIN u2n
        THEN add_edge(iss, g, u2n, concatenate_uid(reference), node)
        ELSE IF reference[1] \in DOMAIN u2n
        THEN add_edge(iss, g, u2n, reference[1], node)
        ELSE [issues |-> add_error(iss, "UnknownSource", concatenate_uid(reference)),
              graph |-> g]

\* add_node_as_entry_node(graph, node)
RECURSIVE add_entry_edges(_, _, _)
add_entry_edges(g, entries, node) ==
    IF entries = <<>> THEN g
    ELSE add_entry_edges(
             IF IsDistribution(node) THEN G_add_edge(g, Head(entries), node) ELSE g,
             Tail(entries), node)

add_node_as_entry_node(g, node) ==
    LET g1 == add_node_parent(g, node, NoneNode)
    IN  add_entry_edges(g1, get_entry_nodes(g1), node)

\* graph.is_directed() of a MultiDiGraph
is_directed(g) == TRUE

\* next((node for node in nodes if isinstance(node, Metadata)), None)
first_metadata(ns) ==
    IF \E k \in DOMAIN ns : ns[k].type = "Metadata"
    THEN ns[CHOOSE k \in DOMAIN ns :
               /\ ns[k].type = "Metadata"
               /\ \A j \in 1..(k - 1) : ns[j].type # "Metadata"]
    ELSE NoneNode

Init ==
    /\ nodes \in Inputs
    /\ pc = "start"
    /\ i = 1
    /\ uid_to_node = <<>>
    /\ graph = MultiDiGraph
    /\ metadata = NoneNode
    /\ entry_nodes = <<>>
    /\ order = <<>>
    /\ last_operation_for_node = <<>>
    /\ operations = MultiDiGraph
    /\ entry_operations = <<>>
    /\ issues = <<>>
    /\ exception = "None"

\* build_structure_graph, lines 87-88
CheckNoDuplicate ==
    /\ pc = "start"
    /\ uid_to_node' = check_no_duplicate_map(nodes)
    /\ issues' = check_no_duplicate_issues(issues, nodes, 1)
    /\ pc' = "build"
    /\ UNCHANGED <<nodes, i, graph, metadata, entry_nodes, order,
                   last_operation_for_node, operations, entry_operations, exception>>

InBuildLoop == pc = "build" /\ exception = "None" /\ i <= Len(nodes)

\* if isinstance(node, Metadata): continue
BuildMetadata ==
    /\ InBuildLoop
    /\ nodes[i].type = "Metadata"
    /\ i' = i + 1
    /\ UNCHANGED <<nodes, pc, uid_to_node, graph, metadata, entry_nodes, order,
                   last_operation_for_node, operations, entry_operations, issues,
                   exception>>

\* uid_to_node[node.parent_uid] of a parent_uid that is None or unknown is a
\* KeyError; reference[0] of an empty reference is an IndexError.
BuildRaises(node) ==
    IF node.parent_uid \notin DOMAIN uid_to_node THEN "KeyError"
    ELSE IF /\ ~(IsDistribution(node) /\ node.contained_in # <<>>)
            /\ node.type = "Field" /\ node.source.present
            /\ node.source.reference = <<>>
            /\ "" \notin DOMAIN uid_to_node
    THEN "IndexError"
    ELSE "None"

BuildRaise ==
    /\ InBuildLoop
    /\ nodes[i].type # "Metadata"
    /\ BuildRaises(nodes[i]) # "None"
    /\ exception' = BuildRaises(nodes[i])
    /\ UNCHANGED <<nodes, pc, i, uid_to_node, graph, metadata, entry_nodes, order,
                   last_operation_for_node, operations, entry_operations, issues>>

\* One iteration of the loop over the nodes, lines 92-113.
build_node(iss, g, u2n, node) ==
    LET g1 == add_node_parent(g, node, u2n[node.parent_uid])
    IN  IF IsDistribution(node) /\ node.contained_in # <<>>
        THEN add_contained_in(iss, g1, u2n, node.contained_in, node)
        ELSE IF node.type = "Field" /\ node.source.present
        THEN add_field_source(iss, g1, u2n, node)
        ELSE IF node.parent_uid # NoneUid
        THEN add_edge(iss, g1, u2n, node.parent_uid, node)
        ELSE [issues |-> iss, graph |-> g1]

BuildNode ==
    /\ InBuildLoop
    /\ nodes[i].type # "Metadata"
    /\ BuildRaises(nodes[i]) = "None"
    /\ LET r == build_node(issues, graph, uid_to_node, nodes[i])
       IN  /\ issues' = r.issues
           /\ graph' = r.graph
    /\ i' = i + 1
    /\ UNCHANGED <<nodes, pc, uid_to_node, metadata, entry_nodes, order,
                   last_operation_for_node, operations, entry_operations, exception>>

\* No Metadata node: one error, and (None, graph) is returned.
NoMetadata ==
    /\ pc = "build" /\ exception = "None" /\ i > Len(nodes)
    /\ first_metadata(nodes) = NoneNode
    /\ issues' = add_error(issues, "NoMetadata", "")
    /\ metadata' = NoneNode
    /\ pc' = "returned_none"
    /\ UNCHANGED <<nodes, i, uid_to_node, graph, entry_nodes, order,
                   last_operation_for_node, operations, entry_operations, exception>>

\* Lines 115-122: the Metadata node becomes the entry node.
AddEntryNode ==
    /\ pc = "build" /\ exception = "None" /\ i > Len(nodes)
    /\ first_metadata(nodes) # NoneNode
    /\ metadata' = first_metadata(nodes)
    /\ entry_nodes' = get_entry_nodes(add_node_parent(graph, metadata', NoneNode))
    /\ graph' = add_node_as_entry_node(graph, metadata')
    /\ issues' = IF is_directed(graph') THEN issues
                 ELSE add_error(issues, "StructureNotDirected", "")
    /\ pc' = "from_nodes"
    /\ UNCHANGED <<nodes, i, uid_to_node, order, last_operation_for_node,
                   operations, entry_operations, exception>>

(***************************************************************************)
(* ComputationGraph.from_nodes                                             *)
(***************************************************************************)
\* mapping[key] = value
Put(mapping, key, value) == (key :> value) @@ mapping

\* Lines 219-221: the mapping and the operation graph start empty, and the
\* structure graph is walked in breadth-first layers from the Metadata node.
FromNodesBegin ==
    /\ pc = "from_nodes" /\ exception = "None"
    /\ last_operation_for_node' = <<>>
    /\ operations' = MultiDiGraph
    /\ order' = Flatten(bfs_layers(graph, <<metadata>>, {metadata}))
    /\ i' = 1
    /\ pc' = "lower"
    /\ UNCHANGED <<nodes, uid_to_node, graph, metadata, entry_nodes,
                   entry_operations, issues, exception>>

\* Lines 223-228: the node inherits the last operation of each predecessor
\* that has one, the later predecessor overwriting the earlier.
RECURSIVE propagate(_, _, _)
propagate(last, preds, node) ==
    IF preds = <<>> THEN last
    ELSE propagate(IF Head(preds) \in DOMAIN last
                   THEN Put(last, node, last[Head(preds)]) ELSE last,
                   Tail(preds), node)

\* if node.source and not node.has_sub_fields
IsLeafField(node) ==
    node.type = "Field" /\ node.source.present /\ ~node.has_sub_fields

\* Lines 234-251: ReadField after the first predecessor's last operation, one
\* generic Operation for a parent that is a Field, GroupRecordSet for a parent
\* (then) that is a RecordSet.
lower_field(last, ops, g, node) ==
    LET predecessor == Head(predecessors(g, node))
        operation == ReadField(node)
        ops1 == G_add_edge(ops, last[predecessor], operation)
        last1 == Put(last, node, operation)
        parent_node == get_parent(g, node)
        nested == parent_node.type = "Field" /\ node.type = "Field"
        operation2 == IF nested THEN Operation(parent_node) ELSE operation
        ops2 == IF nested THEN G_add_edge(ops1, operation, operation2) ELSE ops1
        last2 == IF nested THEN Put(last1, parent_node, operation2) ELSE last1
        parent_node2 == IF nested THEN get_parent(g, parent_node) ELSE parent_node
        grouped == parent_node2.type = "RecordSet"
        operation3 == GroupRecordSet(parent_node2)
    IN  IF grouped
        THEN [last |-> Put(last2, parent_node2, operation3),
              ops |-> G_add_edge(ops2, operation2, operation3)]
        ELSE [last |-> last2, ops |-> ops2]

\* Lines 256-266: one extraction Operation(node) per successor that is a
\* FileObject or FileSet not itself an archive, each chained after the last
\* operation of the node.
RECURSIVE extract_for_successors(_, _, _, _)
extract_for_successors(last, ops, succs, node) ==
    IF succs = <<>> THEN [last |-> last, ops |-> ops]
    ELSE IF /\ node.encoding_format = Tar
            /\ IsDistribution(Head(succs))
            /\ Head(succs).encoding_format # Tar
    THEN extract_for_successors(Put(last, node, Operation(node)),
                                G_add_edge(ops, last[node], Operation(node)),
                                Tail(succs), node)
    ELSE extract_for_successors(last, ops, Tail(succs), node)

\* lower_file_object with the ReadCsv operation added to the graph but not
\* recorded as the last operation of the node.
lower_file_object_stale(last, ops, g, node) ==
    LET operation == Download(node, node.content_url)
        r == extract_for_successors(Put(last, node, operation),
                                    add_node(ops, operation),
                                    successors(g, node), node)
        csv == ReadCsv(node, node.content_url)
    IN  IF node.encoding_format = Csv
        THEN [last |-> r.last,
              ops |-> G_add_edge(r.ops, r.last[node], csv)]
        ELSE r

\* Lines 253-273
lower_file_object(last, ops, g, node) ==
    LET operation == Download(node, node.content_url)
        r == extract_for_successors(Put(last, node, operation),
                                    add_node(ops, operation),
                                    successors(g, node), node)
        csv == ReadCsv(node, node.content_url)
    IN  IF node.encoding_format = Csv
        THEN [last |-> Put(r.last, node, csv),
              ops |-> G_add_edge(r.ops, r.last[node], csv)]
        ELSE r

\* Lines 276-282: the last operation of every predecessor is chained into the
\* merge Operation(node), which becomes the predecessor's last operation.
RECURSIVE merge_sources(_, _, _, _)
merge_sources(last, ops, sources, operation) ==
    IF sources = <<>> THEN [last |-> last, ops |-> ops]
    ELSE merge_sources(Put(last, Head(sources), operation),
                       G_add_edge(ops, last[Head(sources)], operation),
                       Tail(sources), operation)

lower_file_set(last, ops, g, node) ==
    LET operation == Operation(node)
        r == merge_sources(last, ops, predecessors(g, node), operation)
    IN  [last |-> Put(r.last, node, operation), ops |-> r.ops]

\* The exception one iteration raises: next() of no predecessor, or
\* last_operation_for_node[x] of an x that has no entry.
LowerRaises(last, g, node) ==
    LET preds == predecessors(g, node)
        last1 == propagate(last, preds, node)
    IN  IF IsLeafField(node) /\ Len(node.source.reference) = 2
        THEN IF preds = <<>> THEN "StopIteration"
             ELSE IF Head(preds) \notin DOMAIN last1 THEN "KeyError"
             ELSE "None"
        ELSE IF node.type = "FileSet" /\ node.contained_in # <<>>
        THEN IF \E k \in DOMAIN preds : preds[k] \notin DOMAIN last1
             THEN "KeyError" ELSE "None"
        ELSE "None"

InLowerLoop == pc = "lower" /\ exception = "None" /\ i <= Len(order)

Propagated == propagate(last_operation_for_node, predecessors(graph, order[i]), order[i])

LowerRaise ==
    /\ InLowerLoop
    /\ LowerRaises(last_operation_for_node, graph, order[i]) # "None"
    /\ exception' = LowerRaises(last_operation_for_node, graph, order[i])
    /\ UNCHANGED <<nodes, pc, i, uid_to_node, graph, metadata, entry_nodes, order,
                   last_operation_for_node, operations, entry_operations, issues>>

\* A leaf Field whose source reference has not two segments: an error, and
\* the node is skipped.
LowerWrongSource ==
    /\ InLowerLoop
    /\ IsLeafField(order[i])
    /\ Len(order[i].source.reference) # 2
    /\ last_operation_for_node' = Propagated
    /\ issues' = add_error(issues, "WrongSource", order[i].uid)
    /\ i' = i + 1
    /\ UNCHANGED <<nodes, pc, uid_to_node, graph, metadata, entry_nodes, order,
                   operations, entry_operations, exception>>

LowerField ==
    /\ InLowerLoop
    /\ IsLeafField(order[i])
    /\ Len(order[i].source.reference) = 2
    /\ LowerRaises(last_operation_for_node, graph, order[i]) = "None"
    /\ LET r == lower_field(Propagated, operations, graph, order[i])
       IN  /\ last_operation_for_node' = r.last
           /\ operations' = r.ops
    /\ i' = i + 1
    /\ UNCHANGED <<nodes, pc, uid_to_node, graph, metadata, entry_nodes, order,
                   entry_operations, issues, exception>>

LowerFileObject ==
    /\ InLowerLoop
    /\ order[i].type = "FileObject"
    /\ LET r == lower_file_object(Propagated, operations, graph, order[i])
       IN  /\ last_operation_for_node' = r.last
           /\ operations' = r.ops
    /\ i' = i + 1
    /\ UNCHANGED <<nodes, pc, uid_to_node, graph, metadata, entry_nodes, order,
                   entry_operations, issues, exception>>

LowerFileSet ==
    /\ InLowerLoop
    /\ order[i].type = "FileSet"
    /\ order[i].contained_in # <<>>
    /\ LowerRaises(last_operation_for_node, graph, order[i]) = "None"
    /\ LET r == lower_file_set(Propagated, operations, graph, order[i])
       IN  /\ last_operation_for_node' = r.last
           /\ operations' = r.ops
    /\ i' = i + 1
    /\ UNCHANGED <<nodes, pc, uid_to_node, graph, metadata, entry_nodes, order,
                   entry_operations, issues, exception>>

\* Metadata, RecordSet, a Field without source or with sub-fields, a FileSet
\* without contained_in: no operation, only the propagation.
LowerOther ==
    /\ InLowerLoop
    /\ ~IsLeafField(order[i])
    /\ order[i].type # "FileObject"
    /\ ~(order[i].type = "FileSet" /\ order[i].contained_in # <<>>)
    /\ last_operation_for_node' = Propagated
    /\ i' = i + 1
    /\ UNCHANGED <<nodes, pc, uid_to_node, graph, metadata, entry_nodes, order,
                   operations, entry_operations, issues, exception>>

\* Lines 285-288: an edge from InitOperation(metadata) to every operation
\* without predecessor.
RECURSIVE attach_entries(_, _, _)
attach_entries(ops, entries, init_operation) ==
    IF entries = <<>> THEN ops
    ELSE attach_entries(G_add_edge(ops, init_operation, Head(entries)),
                        Tail(entries), init_operation)

AttachInit ==
    /\ pc = "lower" /\ exception = "None" /\ i > Len(order)
    /\ entry_operations' = get_entry_nodes(operations)
    /\ operations' = attach_entries(operations, entry_operations', InitOperation(metadata))
    /\ pc' = "check"
    /\ UNCHANGED <<nodes, i, uid_to_node, graph, metadata, entry_nodes, order,
                   last_operation_for_node, issues, exception>>

(***************************************************************************)
(* ComputationGraph.check_graph                                            *)
(***************************************************************************)
\* Line 296 reads operation.uid of every self-loop edge's operation; an
\* Operation has the fields node (and url), and no uid: AttributeError.
CheckGraphRaises(ops) ==
    IF selfloop_edges(ops) # <<>> THEN "AttributeError" ELSE "None"

CheckGraphRaise ==
    /\ pc = "check" /\ exception = "None"
    /\ CheckGraphRaises(operations) # "None"
    /\ issues' = IF is_directed(operations) THEN issues
                 ELSE add_error(issues, "NotDirected", "")
    /\ exception' = CheckGraphRaises(operations)
    /\ UNCHANGED <<nodes, pc, i, uid_to_node, graph, metadata, entry_nodes, order,
                   last_operation_for_node, operations, entry_operations>>

CheckGraph ==
    /\ pc = "check" /\ exception = "None"
    /\ CheckGraphRaises(operations) = "None"
    /\ issues' = IF is_directed(operations) THEN issues
                 ELSE add_error(issues, "NotDirected", "")
    /\ pc' = "done"
    /\ UNCHANGED <<nodes, i, uid_to_node, graph, metadata, entry_nodes, order,
                   last_operation_for_node, operations, entry_operations, exception>>

Next ==
    \/ CheckNoDuplicate
    \/ BuildMetadata
    \/ BuildRaise
    \/ BuildNode
    \/ NoMetadata
    \/ AddEntryNode
    \/ FromNodesBegin
    \/ LowerRaise
    \/ LowerWrongSource
    \/ LowerField
    \/ LowerFileObject
    \/ LowerFileSet
    \/ LowerOther
    \/ AttachInit
    \/ CheckGraphRaise
    \/ CheckGraph

Spec == Init /\ [][Next]_vars

(***************************************************************************)
(* Properties                                                              *)
(***************************************************************************)
OpNodes == Range(operations.nodes)

OpEdges == Range(operations.edges)

\* from_nodes has returned its ComputationGraph.
FromNodesReturned == pc \in {"check", "done"}

\* check_graph has been called and has returned or raised.
CheckGraphInvoked == pc = "done" \/ (pc = "check" /\ exception # "None")

\* The operations reachable from those of `seen` along the edges of `g`.
RECURSIVE ReachableFrom(_, _)
ReachableFrom(g, seen) ==
    LET more == {e[2] : e \in {d \in Range(g.edges) : d[1] \in seen}} \ seen
    IN  IF more = {} THEN seen ELSE ReachableFrom(g, seen \cup more)

CountEdges(g, u, v) == Cardinality({k \in DOMAIN g.edges : g.edges[k] = <<u, v>>})

CountErrors(kind, uid) ==
    Cardinality({k \in DOMAIN issues : issues[k] = Error(kind, uid)})

InputUids == {nodes[k].uid : k \in DOMAIN nodes}

\* The uid a Field's source resolves to is a uid of the input.
SourceResolves(node) ==
    \/ concatenate_uid(node.source.reference) \in InputUids
    \/ node.source.reference # <<>> /\ node.source.reference[1] \in InputUids

\* Every parent_uid, contained_in element and Field source names a node of the input.
AllReferencesResolve ==
    \A k \in DOMAIN nodes :
        /\ nodes[k].type # "Metadata" => nodes[k].parent_uid \in InputUids
        /\ \A c \in DOMAIN nodes[k].contained_in : nodes[k].contained_in[c] \in InputUids
        /\ (nodes[k].type = "Field" /\ nodes[k].source.present) => SourceResolves(nodes[k])

\* Unique uids, exactly one Metadata node, every reference resolving.
ValidInput ==
    /\ \A j, k \in DOMAIN nodes : nodes[j].uid = nodes[k].uid => j = k
    /\ Cardinality({k \in DOMAIN nodes : nodes[k].type = "Metadata"}) = 1
    /\ AllReferencesResolve

\* C1: once from_nodes has returned, the operation graph has exactly one
\* operation of in-degree 0, it is InitOperation(metadata), every operation
\* is reachable from it, and every operation that had in-degree 0 before Init
\* was attached has exactly one edge from Init.
C1_SingleInitRoot ==
    FromNodesReturned =>
        /\ {o \in OpNodes : in_degree(operations, o) = 0} = {InitOperation(metadata)}
        /\ OpNodes \subseteq ReachableFrom(operations, {InitOperation(metadata)})
        /\ \A k \in DOMAIN entry_operations :
               CountEdges(operations, InitOperation(metadata), entry_operations[k]) = 1

C2_M == Metadata("M")

C2_F == FileObject("F", "M", <<>>, Csv, "http://x/data.csv")

C2_R == RecordSet("R", "M")

C2_Name == Field("R/name", "R", Source(<<"F", "col">>), FALSE)

C2_Input == <<C2_M, C2_F, C2_R, C2_Name>>

\* C2: for the input [Metadata M, FileObject F (text/csv), RecordSet R, leaf
\* Field R/name with source [F, col]] no error is recorded and the operation
\* graph is exactly the chain Init(M) -> Download(F) -> ReadCsv(F) ->
\* ReadField(R/name) -> GroupRecordSet(R): no other operation, no other edge.
C2_EndToEndChain ==
    (nodes = C2_Input /\ FromNodesReturned) =>
        /\ issues = <<>>
        /\ OpNodes = {InitOperation(C2_M), Download(C2_F, C2_F.content_url),
                      ReadCsv(C2_F, C2_F.content_url), ReadField(C2_Name),
                      GroupRecordSet(C2_R)}
        /\ Len(operations.nodes) = 5
        /\ OpEdges = {<<InitOperation(C2_M), Download(C2_F, C2_F.content_url)>>,
                      <<Download(C2_F, C2_F.content_url), ReadCsv(C2_F, C2_F.content_url)>>,
                      <<ReadCsv(C2_F, C2_F.content_url), ReadField(C2_Name)>>,
                      <<ReadField(C2_Name), GroupRecordSet(C2_R)>>}
        /\ Len(operations.edges) = 4

\* C2's case: the end-to-end input has been compiled and checked.
C2_Witness == nodes = C2_Input /\ pc = "done" /\ operations.nodes # <<>>

\* C3: once the Metadata node is registered as entry node, it has an edge to
\* every FileObject or FileSet that had in-degree 0 at that moment.
C3_OrphansAnchored ==
    pc \in {"from_nodes", "lower", "check", "done"} =>
        \A k \in DOMAIN entry_nodes :
            IsDistribution(entry_nodes[k]) =>
                <<metadata, entry_nodes[k]>> \in Range(graph.edges)

\* C4: build_structure_graph never raises; every reference to a uid that is
\* not in the input is recorded as an error and adds no edge.
C4_BuildNeverRaises ==
    /\ pc = "build" => exception = "None"
    /\ pc \in {"returned_none", "from_nodes", "lower", "check", "done"} =>
           /\ \A k \in DOMAIN nodes :
                  /\ IsDistribution(nodes[k]) =>
                         \A c \in DOMAIN nodes[k].contained_in :
                             nodes[k].contained_in[c] \notin InputUids =>
                                 CountErrors("UnknownReference", nodes[k].contained_in[c]) >= 1
                  /\ (nodes[k].type = "Field" /\ nodes[k].source.present
                          /\ ~SourceResolves(nodes[k])) =>
                         CountErrors("UnknownSource",
                                     concatenate_uid(nodes[k].source.reference)) >= 1
           /\ \A e \in Range(graph.edges) : e[1] \in Range(nodes) /\ e[2] \in Range(nodes)

\* The first operation from_nodes emits for a FileObject or FileSet.
FirstOperation(node) ==
    IF node.type = "FileObject" THEN Download(node, node.content_url) ELSE Operation(node)

\* C5: for every application/x-tar FileObject A and every structural
\* successor S that is a FileObject or FileSet of another encoding, the
\* operation graph holds Download(A) -> Operation(A) -> first operation of S.
C5_ExtractionChain ==
    FromNodesReturned =>
        \A a \in Range(graph.nodes) :
            (a.type = "FileObject" /\ a.encoding_format = Tar) =>
                \A s \in Range(successors(graph, a)) :
                    (IsDistribution(s) /\ s.encoding_format # a.encoding_format) =>
                        /\ <<Download(a, a.content_url), Operation(a)>> \in OpEdges
                        /\ <<Operation(a), FirstOperation(s)>> \in OpEdges

\* C6: check_graph of an operation graph with a self-loop on X returns
\* normally with exactly one self-loop error, which names the uid of X's node.
C6_SelfLoopReported ==
    (CheckGraphInvoked /\ selfloop_edges(operations) # <<>>) =>
        /\ exception = "None"
        /\ pc = "done"
        /\ Cardinality({k \in DOMAIN issues : issues[k].kind = "SelfLoops"}) = 1
        /\ \A k \in DOMAIN issues :
               issues[k].kind = "SelfLoops" =>
                   \E e \in Range(selfloop_edges(operations)) : issues[k].uid = e[1].node.uid

\* A leaf Field whose source reference has one segment, or three or more.
HasMalformedSource(node) ==
    IsLeafField(node) /\ Len(node.source.reference) \notin {0, 2}

\* C7: for every leaf Field with a source reference of length 1 or 3+,
\* exactly one "Wrong source" error is recorded, no ReadField is emitted for
\* it, and every sibling leaf Field with a two-segment source has its
\* ReadField chained into the GroupRecordSet of their RecordSet.
C7_MalformedSourceSkipped ==
    FromNodesReturned =>
        \A k \in DOMAIN nodes :
            HasMalformedSource(nodes[k]) =>
                /\ CountErrors("WrongSource", nodes[k].uid) = 1
                /\ ReadField(nodes[k]) \notin OpNodes
                /\ \A j \in DOMAIN nodes :
                       (/\ j # k
                        /\ IsLeafField(nodes[j])
                        /\ Len(nodes[j].source.reference) = 2
                        /\ nodes[j].parent_uid = nodes[k].parent_uid
                        /\ nodes[j].parent_uid \in DOMAIN uid_to_node
                        /\ uid_to_node[nodes[j].parent_uid].type = "RecordSet") =>
                           <<ReadField(nodes[j]),
                             GroupRecordSet(uid_to_node[nodes[j].parent_uid])>> \in OpEdges

\* The walk up the parent pointers from a Field reaches a RecordSet through
\* Field groups only.
RECURSIVE InsideRecordSet(_, _)
InsideRecordSet(parent_node, fuel) ==
    IF parent_node.type = "RecordSet" THEN TRUE
    ELSE IF parent_node.type = "Field" /\ fuel > 0
    THEN InsideRecordSet(get_parent(graph, parent_node), fuel - 1)
    ELSE FALSE

\* The chain from `operation` through one generic Operation per enclosing
\* Field group, innermost first, to GroupRecordSet(R), the last operation of R.
RECURSIVE ChainToRecordSet(_, _, _)
ChainToRecordSet(operation, parent_node, fuel) ==
    IF parent_node.type = "RecordSet"
    THEN /\ <<operation, GroupRecordSet(parent_node)>> \in OpEdges
         /\ parent_node \in DOMAIN last_operation_for_node
         /\ last_operation_for_node[parent_node] = GroupRecordSet(parent_node)
    ELSE IF parent_node.type = "Field" /\ fuel > 0
    THEN /\ <<operation, Operation(parent_node)>> \in OpEdges
         /\ ChainToRecordSet(Operation(parent_node), get_parent(graph, parent_node), fuel - 1)
    ELSE FALSE

\* C8: for every lowered leaf Field nested under k >= 0 Field groups inside a
\* RecordSet R, the operation graph holds ReadField(leaf) -> one Operation per
\* enclosing group -> GroupRecordSet(R), whatever the depth k.
C8_NestedGroupsChain ==
    FromNodesReturned =>
        \A f \in Range(graph.nodes) :
            (/\ IsLeafField(f)
             /\ Len(f.source.reference) = 2
             /\ ReadField(f) \in OpNodes
             /\ InsideRecordSet(get_parent(graph, f), Len(nodes))) =>
                ChainToRecordSet(ReadField(f), get_parent(graph, f), Len(nodes))

\* C9: when every reference of the input resolves, from_nodes never reads
\* last_operation_for_node[x] before an entry for x is written.
C9_NoReadBeforeWrite ==
    (pc = "lower" /\ AllReferencesResolve) => exception # "KeyError"

\* C10: the operation graph compiled from a valid input has no edge from an
\* operation to itself.
C10_NoSelfLoop ==
    (ValidInput /\ FromNodesReturned) => selfloop_edges(operations) = <<>>

====
